---------------------------- MODULE Spec2Model ----------------------------
(***************************************************************************)
(* Allwinner H6 thermal sensor driver (drivers/thermal/sun50i_h6_ths.c).   *)
(*                                                                         *)
(* The model covers the register block, the probe/remove life cycle, the   *)
(* calibration engine, the threaded interrupt handler, the temperature     *)
(* query callback and the two conversion functions.  Registers are 32-bit  *)
(* unsigned integers; C arithmetic keeps its width (u32, u16, s16).        *)
(***************************************************************************)
EXTENDS Integers, Sequences, FiniteSets, TLC

(***************************************************************************)
(* Program constants.                                                      *)
(***************************************************************************)
sensor_num == 2
THS_H6_CAL_FT_TEMP_MASK == 4095
THS_H6_CAL_DEFAULT == 2048
THS_H6_CAL_VAL_MASK == 4095
THS_H6_CLK_IN == 240000000
THS_H6_DATA_PERIOD == 10
THS_H6_FILTER_TYPE_VALUE == 2
THS_H6_CTRL0_SENSOR_ACQ0_VALUE == 479
THS_H6_CTRL0_UNK == 47

\* errno values as the driver returns them (negative)
EBUSY_ERR == -16
EINVAL_ERR == -22
ENOMEM_ERR == -12
ENOENT_ERR == -2
EPROBE_DEFER_ERR == -517
IRQ_HANDLED == 1

(***************************************************************************)
(* Bounds of the model.                                                    *)
(***************************************************************************)
\* calc_temp is exercised on every raw value 0..MaxRaw (and on ExtraRaws)
MaxRaw == 5000

Sensors == 0 .. (sensor_num - 1)

\* values the hardware data registers deliver in the life-cycle model
RawValues == {0, 2000}
\* contents of the 16-bit calibration fields when probe starts: the hardware
\* default, or a value an earlier calibration (firmware) left there
CalInit == {THS_H6_CAL_DEFAULT, 2032}
\* calibration blob words: word 0 (factory temperature) and per-sensor words
CalWord0 == {0, 250}
\* a 12-bit factory temperature whose expected raw value is below zero
CalWord0Wrap == {1879}
CalWords == {2400, 100}

(***************************************************************************)
(* Fixed-width integer helpers.  The model checker's integers are 32-bit   *)
(* signed, so a u32 that takes part in a product is held as four bytes,    *)
(* most significant first, and products and quotients are computed byte by *)
(* byte; every other register value of the model fits 31 bits.             *)
(***************************************************************************)
Pow2(n) == 2 ^ n
\* conversion of a value to u16
U16(x) == x % Pow2(16)
\* conversion of a value to s16 (two's complement)
S16(x) == LET m == x % Pow2(16) IN IF m >= Pow2(15) THEN m - Pow2(16) ELSE m

BIT(n) == Pow2(n)
TestBit(x, n) == (x \div Pow2(n)) % 2 = 1
\* x | BIT(n)
OrBit(x, n) == IF TestBit(x, n) THEN x ELSE x + Pow2(n)

RECURSIVE AndNotFrom(_, _, _)
AndNotFrom(x, w, k) ==
    IF k = 31 THEN 0
    ELSE (IF TestBit(x, k) /\ ~TestBit(w, k) THEN Pow2(k) ELSE 0)
         + AndNotFrom(x, w, k + 1)
\* x & ~w
AndNot(x, w) == AndNotFrom(x, w, 0)

BitsOf(x) == {s \in Sensors : TestBit(x, s)}

\* the bytes of a non-negative value below 2^31
Bytes31(x) ==
    <<x \div Pow2(24), (x \div Pow2(16)) % 256, (x \div 256) % 256, x % 256>>

\* the u32 an int converts to, as bytes (a negative x becomes 2^32 + x)
U32Bytes(x) ==
    IF x >= 0 THEN Bytes31(x)
    ELSE LET b == Bytes31((x + 2147483647) + 1)
         IN  <<b[1] + 128, b[2], b[3], b[4]>>

\* the u32 product b * m modulo 2^32, as bytes (m below 2^22)
MulU32(b, m) ==
    LET p0 == b[4] * m
        p1 == b[3] * m + p0 \div 256
        p2 == b[2] * m + p1 \div 256
        p3 == b[1] * m + p2 \div 256
    IN  <<p3 % 256, p2 % 256, p1 % 256, p0 % 256>>

\* the u32 quotient b / d (256 <= d < 2^22, so the quotient fits an int)
DivU32(b, d) ==
    LET c1 == b[1]
        c2 == (c1 % d) * 256 + b[2]
        c3 == (c2 % d) * 256 + b[3]
        c4 == (c3 % d) * 256 + b[4]
    IN  (((c1 \div d) * 256 + c2 \div d) * 256 + c3 \div d) * 256 + c4 \div d

(***************************************************************************)
(* Temperature conversion (lines 89-97).                                   *)
(***************************************************************************)
\* a calc_temp that divides before scaling (mutation of calc_temp)
calc_temp_divfirst(val) == 187744 - (val \div 14882) * 1000000

\* int calc_temp(u32 val): 187744 - (int)((val * 1000000) / 14882)
calc_temp(val) == 187744 - DivU32(MulU32(U32Bytes(val), 1000000), 14882)

\* a recalc_reg with the wrong offset (mutation of recalc_reg)
recalc_reg_offset(temp) ==
    U16(2800 - DivU32(MulU32(U32Bytes(temp), 14882), 1000000))

\* u16 recalc_reg(u32 temp): (u16)(2794 - temp * 14882 / 1000000)
recalc_reg(temp) ==
    U16(2794 - DivU32(MulU32(U32Bytes(temp), 14882), 1000000))

(***************************************************************************)
(* State.                                                                  *)
(***************************************************************************)
VARIABLES
    pc,       \* position of the platform driver: probe steps, bound, removed
    ret,      \* probe's local ret / return value
    reg_i,    \* probe's loop index while registering thermal zones
    reset,    \* reset line: "asserted" or "deasserted"
    clk,      \* bus clock enabled
    irq,      \* threaded IRQ registered (devm_request_threaded_irq)
    tzd,      \* sensors whose thermal zone is registered
    val,      \* sensors[i].val, the stored raw sample
    regs,     \* the register block
    ops,      \* reset/clock operations issued so far, in order
    last,     \* the most recently completed call: [op, sensor, ret]
    out,      \* the int the last get_temp call was handed: [written, value]
    cal,      \* record of the calibrate call made by probe
    irqlog,   \* what the last interrupt handler invocation did
    conv,     \* conversion-function harness: [op, T, in, out]
    ith       \* the interrupt thread when it runs step by step: [pos, i, off]

vars == <<pc, ret, reg_i, reset, clk, irq, tzd, val, regs, ops, last, out,
          cal, irqlog, conv, ith>>
drv == <<pc, ret, reg_i, reset, clk, irq, tzd, val, regs, ops, last, out,
         cal, irqlog, ith>>

CdataRegs == 0 .. ((sensor_num - 1) \div 2)

\* the 16-bit calibration field of sensor i inside its CDATA register
CalField(cdata, i) ==
    IF i % 2 = 1 THEN cdata[i \div 2] \div Pow2(16)
    ELSE cdata[i \div 2] % Pow2(16)

Call(op, s, r) == [op |-> op, sensor |-> s, ret |-> r]

NoCal == [cell |-> "none", called |-> FALSE, ret |-> 0, pre |-> <<>>,
          post |-> <<>>, writes |-> <<>>, steps |-> <<>>, blob |-> <<>>,
          freed |-> FALSE]
NoIrq == [pending |-> {}, w1c |-> <<>>, stored |-> {}, notified |-> {},
          drained |-> {}, nonzero |-> {}, lastzero |-> {}]
NoConv == [op |-> "none", T |-> 0, in |-> 0, out |-> 0]
\* the interrupt thread is not running; off: it has touched the register
\* block while the bus clock was disabled or the reset line asserted
NoIth == [pos |-> "idle", i |-> 0, off |-> FALSE]

DrvInit ==
    /\ pc = "unbound"
    /\ ret = 0
    /\ reg_i = 0
    /\ reset = "asserted"
    /\ clk = FALSE
    /\ irq = FALSE
    /\ tzd = {}
    /\ val = [s \in Sensors |-> 0]
    /\ \E c \in CalInit :
          regs = [ctrl0 |-> 0, ctrl2 |-> 0, per |-> 0, int_ctrl |-> 0,
                  stat |-> 0, filter |-> 0,
                  cdata |-> [n \in CdataRegs |-> c * Pow2(16) + c],
                  data |-> [s \in Sensors |-> 0]]
    /\ ops = <<>>
    /\ last = Call("none", 0, 0)
    /\ out = [written |-> FALSE, value |-> 0]
    /\ cal = NoCal
    /\ irqlog = NoIrq
    /\ ith = NoIth

Init == DrvInit /\ conv = NoConv

(***************************************************************************)
(* Calibration engine: sun50i_h6_ths_calibrate (lines 161-210).            *)
(***************************************************************************)
\* ft_temp = (caldata[0] & THS_H6_CAL_FT_TEMP_MASK) * 100
FtTemp(word0) == (word0 % (THS_H6_CAL_FT_TEMP_MASK + 1)) * 100

\* s16 ft_temp_orig_reg = sun50i_h6_ths_recalc_reg(ft_temp)
FtTempOrigReg(word0) == S16(recalc_reg(FtTemp(word0)))

\* cal_val with the difference taken the other way round
\* (mutation of CalVal)
CalValSwapped(w, i) ==
    LET diff == S16(S16(w[2 + i]) - FtTempOrigReg(w[1]))
    IN  S16(THS_H6_CAL_DEFAULT - diff)

\* cal_val of sensor i: diff = ft_temp_orig_reg - (s16)caldata[1 + i];
\* cal_val = THS_H6_CAL_DEFAULT - diff, both s16
CalVal(w, i) ==
    LET diff == S16(FtTempOrigReg(w[1]) - S16(w[2 + i]))
    IN  S16(THS_H6_CAL_DEFAULT - diff)

\* cal_val & ~THS_H6_CAL_VAL_MASK on the int cal_val is promoted to: a
\* negative value has every bit above bit 11 set
CalValFaulty(cal_val) ==
    IF cal_val < 0 THEN TRUE ELSE AndNot(cal_val, THS_H6_CAL_VAL_MASK) # 0

\* even branch that keeps the upper half (mutation of CalWriteEven)
CalWriteEvenRmw(cdata, i, cal_val) ==
    [cdata EXCEPT ![i \div 2] = (@ \div Pow2(16)) * Pow2(16) + cal_val]

\* even index: writel(cal_val, CDATA(i / 2))
CalWriteEven(cdata, i, cal_val) ==
    [cdata EXCEPT ![i \div 2] = cal_val]

\* odd index: read, keep the low 16 bits, or in cal_val << 16, write back
CalWriteOdd(cdata, i, cal_val) ==
    [cdata EXCEPT ![i \div 2] = (@ % Pow2(16)) + cal_val * Pow2(16)]

RECURSIVE CalLoop(_, _, _, _)
\* the for loop of calibrate from index i on; st = [cdata, writes, steps]:
\* the registers, the sensors written, and each register update made
CalLoop(st, w, i, n) ==
    IF i >= n THEN st
    ELSE LET cal_val == CalVal(w, i)
             upd == IF i % 2 = 1 THEN CalWriteOdd(st.cdata, i, cal_val)
                    ELSE CalWriteEven(st.cdata, i, cal_val)
         IN  IF CalValFaulty(cal_val)
             THEN CalLoop(st, w, i + 1, n)
             ELSE CalLoop([cdata |-> upd,
                           writes |-> Append(st.writes, i),
                           steps |-> Append(st.steps,
                                       [i |-> i,
                                        before |-> st.cdata[i \div 2],
                                        after |-> upd[i \div 2]])],
                          w, i + 1, n)

\* calibrate without the check of the first word (mutation of calibrate)
calibrate_nozero(cdata, blob) ==
    IF ~blob.ok
    THEN [ret |-> blob.err, cdata |-> cdata, writes |-> <<>>, steps |-> <<>>,
          freed |-> FALSE]
    ELSE IF blob.len < 2 + 2 * sensor_num
    THEN [ret |-> EINVAL_ERR, cdata |-> cdata, writes |-> <<>>, steps |-> <<>>,
          freed |-> FALSE]
    ELSE LET st == CalLoop([cdata |-> cdata, writes |-> <<>>,
                            steps |-> <<>>], blob.w, 0, sensor_num)
         IN  [ret |-> 0, cdata |-> st.cdata, writes |-> st.writes,
              steps |-> st.steps, freed |-> TRUE]

\* sun50i_h6_ths_calibrate: blob is what nvmem_cell_read delivers,
\* [ok, err, len (bytes), w (the 16-bit words)]
calibrate(cdata, blob) ==
    IF ~blob.ok
    THEN [ret |-> blob.err, cdata |-> cdata, writes |-> <<>>, steps |-> <<>>,
          freed |-> FALSE]
    ELSE IF blob.len < 2 + 2 * sensor_num
    THEN [ret |-> EINVAL_ERR, cdata |-> cdata, writes |-> <<>>, steps |-> <<>>,
          freed |-> FALSE]
    ELSE IF blob.w[1] = 0
    THEN [ret |-> EINVAL_ERR, cdata |-> cdata, writes |-> <<>>, steps |-> <<>>,
          freed |-> FALSE]
    ELSE LET st == CalLoop([cdata |-> cdata, writes |-> <<>>,
                            steps |-> <<>>], blob.w, 0, sensor_num)
         IN  [ret |-> 0, cdata |-> st.cdata, writes |-> st.writes,
              steps |-> st.steps, freed |-> TRUE]

RECURSIVE RevertFrom(_, _, _)
\* probe's revert loop: for (i = 0; i < sensor_num; i += 2)
\*     writew(THS_H6_CAL_DEFAULT, regs + THS_H6_CDATA(i / 2));
\* a 16-bit store to the register's address: the low half
RevertFrom(cdata, i, n) ==
    IF i >= n THEN cdata
    ELSE RevertFrom([cdata EXCEPT ![i \div 2] =
                        (@ \div Pow2(16)) * Pow2(16) + THS_H6_CAL_DEFAULT],
                    i + 2, n)

RevertCal(cdata) == RevertFrom(cdata, 0, sensor_num)

\* what nvmem_cell_read can deliver: an error, or a buffer of len bytes
\* holding len / 2 16-bit words
Blobs ==
    {[ok |-> FALSE, err |-> ENOMEM_ERR, len |-> 0, w |-> <<>>]}
    \cup {[ok |-> TRUE, err |-> 0, len |-> 4, w |-> <<a, 2400>>] :
             a \in CalWord0}
    \cup {[ok |-> TRUE, err |-> 0, len |-> 6, w |-> <<0, 2400, 2400>>]}
    \cup {[ok |-> TRUE, err |-> 0, len |-> 6, w |-> <<250, b, c>>] :
             b \in CalWords, c \in CalWords}
    \cup {[ok |-> TRUE, err |-> 0, len |-> 6, w |-> <<a, 100, 2400>>] :
             a \in CalWord0Wrap}

(***************************************************************************)
(* Probe: sun50i_h6_ths_probe (lines 212-330), one action per step.        *)
(***************************************************************************)
ProbeReturn(r) ==
    /\ pc' = IF r = 0 THEN "bound" ELSE "probe_failed"
    /\ ret' = r
    /\ last' = Call("probe", 0, r)

ProbeStep(next) ==
    /\ pc' = next
    /\ last' = Call("probe_step", 0, 0)
    /\ UNCHANGED ret

\* lines 218-243: allocation, match data, memory resource, ioremap, IRQ number
ProbeMap ==
    /\ pc = "unbound"
    /\ \E r \in {0, ENOMEM_ERR, EINVAL_ERR} :
          IF r = 0 THEN ProbeStep("p_request_irq") ELSE ProbeReturn(r)
    /\ UNCHANGED <<reg_i, reset, clk, irq, tzd, val, regs, ops, out, cal,
                   irqlog, conv, ith>>

\* lines 245-249: devm_request_threaded_irq
ProbeRequestIrq ==
    /\ pc = "p_request_irq"
    /\ \E r \in {0, EINVAL_ERR} :
          /\ IF r = 0 THEN ProbeStep("p_get_clk_reset") ELSE ProbeReturn(r)
          /\ irq' = (r = 0)
    /\ UNCHANGED <<reg_i, reset, clk, tzd, val, regs, ops, out, cal, irqlog,
                   conv, ith>>

\* lines 251-263: devm_clk_get, devm_reset_control_get
ProbeGetClkReset ==
    /\ pc = "p_get_clk_reset"
    /\ \E r \in {0, ENOENT_ERR} :
          IF r = 0 THEN ProbeStep("p_deassert") ELSE ProbeReturn(r)
    /\ UNCHANGED <<reg_i, reset, clk, irq, tzd, val, regs, ops, out, cal,
                   irqlog, conv, ith>>

\* lines 265-269: reset_control_deassert; on failure return ret
ProbeResetDeassert ==
    /\ pc = "p_deassert"
    /\ \E r \in {0, EINVAL_ERR} :
          IF r = 0
          THEN /\ ProbeStep("p_clk_enable")
               /\ reset' = "deasserted"
               /\ ops' = Append(ops, "reset_deassert")
          ELSE /\ ProbeReturn(r)
               /\ UNCHANGED <<reset, ops>>
    /\ UNCHANGED <<reg_i, clk, irq, tzd, val, regs, out, cal, irqlog, conv, ith>>

\* clock enable whose failure path also disables the clock
\* (mutation of ProbeClkEnable)
ProbeClkEnableGotoBus ==
    /\ pc = "p_clk_enable"
    /\ \E r \in {0, EINVAL_ERR} :
          IF r = 0
          THEN /\ ProbeStep("p_calibrate")
               /\ clk' = TRUE
               /\ ops' = Append(ops, "clk_enable")
          ELSE /\ pc' = "err_disable_bus"
               /\ ret' = r
               /\ last' = Call("probe_step", 0, 0)
               /\ UNCHANGED <<clk, ops>>
    /\ UNCHANGED <<reg_i, reset, irq, tzd, val, regs, out, cal, irqlog, conv, ith>>

\* lines 271-275: clk_prepare_enable; on failure goto err_assert_reset
ProbeClkEnable ==
    /\ pc = "p_clk_enable"
    /\ \E r \in {0, EINVAL_ERR} :
          IF r = 0
          THEN /\ ProbeStep("p_calibrate")
               /\ clk' = TRUE
               /\ ops' = Append(ops, "clk_enable")
          ELSE /\ pc' = "err_assert_reset"
               /\ ret' = r
               /\ last' = Call("probe_step", 0, 0)
               /\ UNCHANGED <<clk, ops>>
    /\ UNCHANGED <<reg_i, reset, irq, tzd, val, regs, out, cal, irqlog, conv, ith>>

\* a probe that treats an error of calibrate as fatal
\* (mutation of ProbeCalibrate)
ProbeCalibrateFatal ==
    /\ pc = "p_calibrate"
    /\ \/ /\ pc' = "err_disable_bus"
          /\ ret' = EPROBE_DEFER_ERR
          /\ last' = Call("probe_step", 0, 0)
          /\ cal' = [NoCal EXCEPT !.cell = "defer"]
          /\ UNCHANGED regs
       \/ /\ ProbeStep("p_register")
          /\ cal' = [NoCal EXCEPT !.cell = "error"]
          /\ UNCHANGED regs
       \/ \E blob \in Blobs :
             LET c == calibrate(regs.cdata, blob)
             IN  /\ pc' = IF c.ret # 0 THEN "err_disable_bus"
                          ELSE "p_register"
                 /\ ret' = c.ret
                 /\ last' = Call("calibrate", 0, c.ret)
                 /\ cal' = [cell |-> "ok", called |-> TRUE, ret |-> c.ret,
                            pre |-> regs.cdata, post |-> c.cdata,
                            writes |-> c.writes, steps |-> c.steps,
                            blob |-> blob, freed |-> c.freed]
                 /\ regs' = [regs EXCEPT !.cdata =
                                IF c.ret # 0 THEN RevertCal(c.cdata)
                                ELSE c.cdata]
    /\ reg_i' = 0
    /\ UNCHANGED <<reset, clk, irq, tzd, val, ops, out, irqlog, conv, ith>>

\* lines 277-303: devm_nvmem_cell_get; -EPROBE_DEFER is fatal, any other
\* lookup error is tolerated; otherwise calibrate, and revert on its error
ProbeCalibrate ==
    /\ pc = "p_calibrate"
    /\ \/ /\ pc' = "err_disable_bus"
          /\ ret' = EPROBE_DEFER_ERR
          /\ last' = Call("probe_step", 0, 0)
          /\ cal' = [NoCal EXCEPT !.cell = "defer"]
          /\ UNCHANGED regs
       \/ /\ ProbeStep("p_register")
          /\ cal' = [NoCal EXCEPT !.cell = "error"]
          /\ UNCHANGED regs
       \/ \E blob \in Blobs :
             LET c == calibrate(regs.cdata, blob)
             IN  /\ pc' = "p_register"
                 /\ ret' = c.ret
                 /\ last' = Call("calibrate", 0, c.ret)
                 /\ cal' = [cell |-> "ok", called |-> TRUE, ret |-> c.ret,
                            pre |-> regs.cdata, post |-> c.cdata,
                            writes |-> c.writes, steps |-> c.steps,
                            blob |-> blob, freed |-> c.freed]
                 /\ regs' = [regs EXCEPT !.cdata =
                                IF c.ret # 0 THEN RevertCal(c.cdata)
                                ELSE c.cdata]
    /\ reg_i' = 0
    /\ UNCHANGED <<reset, clk, irq, tzd, val, ops, out, irqlog, conv, ith>>

\* lines 305-318: one iteration of the registration loop
ProbeRegisterSensor ==
    /\ pc = "p_register"
    /\ reg_i < sensor_num
    /\ \E r \in {0, EINVAL_ERR} :
          IF r = 0
          THEN /\ tzd' = tzd \cup {reg_i}
               /\ reg_i' = reg_i + 1
               /\ pc' = "p_register"
               /\ last' = Call("probe_step", 0, 0)
               /\ UNCHANGED ret
          ELSE /\ pc' = "err_disable_bus"
               /\ ret' = r
               /\ last' = Call("probe_step", 0, 0)
               /\ UNCHANGED <<tzd, reg_i>>
    /\ UNCHANGED <<reset, clk, irq, val, regs, ops, out, cal, irqlog, conv, ith>>

(***************************************************************************)
(* configure: sun50i_h6_ths_init (lines 133-155).                          *)
(***************************************************************************)
THS_H6_FILTER_DIV == Pow2(THS_H6_FILTER_TYPE_VALUE + 1)
THS_H6_INT_CTRL_THERMAL_PER_VALUE ==
    ((THS_H6_DATA_PERIOD * (THS_H6_CLK_IN \div 1000)) \div THS_H6_FILTER_DIV)
        \div 4096 - 1

RECURSIVE SensorMask(_, _, _)
\* val = 0; for (i = 0; i < sensor_num; i++) val |= BIT(i);
SensorMask(v, i, n) == IF i >= n THEN v ELSE SensorMask(OrBit(v, i), i + 1, n)

\* a configure that adds the enable bits to what the registers hold
\* (mutation of ths_init)
ths_init_add(r) ==
    [r EXCEPT !.ctrl0 = THS_H6_CTRL0_SENSOR_ACQ0_VALUE * Pow2(16)
                       + THS_H6_CTRL0_UNK,
              !.filter = BIT(2) + THS_H6_FILTER_TYPE_VALUE,
              !.ctrl2 = @ + SensorMask(0, 0, sensor_num),
              !.per = THS_H6_INT_CTRL_THERMAL_PER_VALUE * Pow2(12),
              !.int_ctrl = @ + SensorMask(0, 0, sensor_num)]

ths_init(r) ==
    [r EXCEPT !.ctrl0 = THS_H6_CTRL0_SENSOR_ACQ0_VALUE * Pow2(16)
                       + THS_H6_CTRL0_UNK,
              !.filter = BIT(2) + THS_H6_FILTER_TYPE_VALUE,
              !.ctrl2 = SensorMask(0, 0, sensor_num),
              !.per = THS_H6_INT_CTRL_THERMAL_PER_VALUE * Pow2(12),
              !.int_ctrl = SensorMask(0, 0, sensor_num)]

\* a probe that runs init without waiting for the end of the registration
\* loop (mutation of ProbeInit)
ProbeInitEarly ==
    /\ pc = "p_register"
    /\ regs' = ths_init(regs)
    /\ ProbeReturn(0)
    /\ UNCHANGED <<reg_i, reset, clk, irq, tzd, val, ops, out, cal, irqlog,
                   conv, ith>>

\* lines 305, 320-323: the loop is over; init, set drvdata, return 0
ProbeInit ==
    /\ pc = "p_register"
    /\ reg_i >= sensor_num
    /\ regs' = ths_init(regs)
    /\ ProbeReturn(0)
    /\ UNCHANGED <<reg_i, reset, clk, irq, tzd, val, ops, out, cal, irqlog,
                   conv, ith>>

\* lines 325-326: err_disable_bus
ErrDisableBus ==
    /\ pc = "err_disable_bus"
    /\ clk' = FALSE
    /\ ops' = Append(ops, "clk_disable")
    /\ pc' = "err_assert_reset"
    /\ last' = Call("probe_step", 0, 0)
    /\ UNCHANGED <<ret, reg_i, reset, irq, tzd, val, regs, out, cal, irqlog,
                   conv, ith>>

\* lines 327-329: err_assert_reset, return ret
ErrAssertReset ==
    /\ pc = "err_assert_reset"
    /\ reset' = "asserted"
    /\ ops' = Append(ops, "reset_assert")
    /\ ProbeReturn(ret)
    /\ UNCHANGED <<reg_i, clk, irq, tzd, val, regs, out, cal, irqlog, conv, ith>>

(***************************************************************************)
(* Remove: sun50i_h6_ths_remove (lines 332-339).                           *)
(***************************************************************************)
\* a remove that releases in the order of probe's error path
\* (mutation of Remove)
RemoveLifo ==
    /\ pc = "bound"
    /\ clk' = FALSE
    /\ reset' = "asserted"
    /\ ops' = ops \o <<"clk_disable", "reset_assert">>
    /\ pc' = "removed"
    /\ last' = Call("remove", 0, 0)
    /\ UNCHANGED <<ret, reg_i, irq, tzd, val, regs, out, cal, irqlog, conv, ith>>

Remove ==
    /\ pc = "bound"
    /\ reset' = "asserted"
    /\ clk' = FALSE
    /\ ops' = ops \o <<"reset_assert", "clk_disable">>
    /\ pc' = "removed"
    /\ last' = Call("remove", 0, 0)
    /\ UNCHANGED <<ret, reg_i, irq, tzd, val, regs, out, cal, irqlog, conv, ith>>

\* device-managed resources (the IRQ, the thermal zones) are released by the
\* driver core after a failed probe or after remove returns; freeing the
\* IRQ waits for a running interrupt thread to return
DevresRelease ==
    /\ pc \in {"probe_failed", "removed"}
    /\ irq \/ tzd # {}
    /\ ith.pos = "idle"
    /\ irq' = FALSE
    /\ tzd' = {}
    /\ UNCHANGED <<pc, ret, reg_i, reset, clk, val, regs, ops, last, out, cal,
                   irqlog, conv, ith>>

(***************************************************************************)
(* Hardware: a sensor delivers a sample.                                   *)
(***************************************************************************)
\* an enabled sensor stores a new value in THS_H6_DATA(s) and raises its
\* bit in THS_H6_DATA_INT_STAT
HwSample ==
    /\ reset = "deasserted"
    /\ clk
    /\ \E s \in Sensors, d \in RawValues :
          /\ TestBit(regs.ctrl2, s)
          /\ regs' = [regs EXCEPT !.data[s] = d, !.stat = OrBit(@, s)]
          /\ last' = Call("hw_sample", s, 0)
    /\ UNCHANGED <<pc, ret, reg_i, reset, clk, irq, tzd, val, ops, out, cal,
                   irqlog, conv, ith>>

(***************************************************************************)
(* Interrupt handler: sun50i_h6_ths_irq_thread (lines 111-131).            *)
(***************************************************************************)
\* a handler that acknowledges everything it read (mutation of IrqStatWrite)
IrqStatWriteAll(stat, i) == stat

\* the value written to THS_H6_DATA_INT_STAT for sensor i (lines 121-122)
IrqStatWrite(stat, i) == BIT(i)

\* a handler that keeps the old sample when the data register reads 0
\* (mutation of IrqStore)
IrqStoreNonzero(old, d) == IF d = 0 THEN old ELSE d

\* data->sensors[i].val = readl(data->regs + THS_H6_DATA(i))  (line 124)
IrqStore(old, d) == d

RECURSIVE IrqLoop(_, _, _)
\* the for loop from index i on;
\* st = [stat, val, w1c, stored, notified], data the data registers
IrqLoop(st, data, i) ==
    IF i >= sensor_num THEN st
    ELSE IF ~TestBit(st.stat, i) THEN IrqLoop(st, data, i + 1)
    ELSE LET w == IrqStatWrite(st.stat, i)
             v == IrqStore(st.val[i], data[i])
         IN  IrqLoop([stat |-> AndNot(st.stat, w),
                      val |-> [st.val EXCEPT ![i] = v],
                      w1c |-> Append(st.w1c, w),
                      stored |-> st.stored \cup {i},
                      notified |-> IF v # 0 THEN st.notified \cup {i}
                                   ELSE st.notified],
                     data, i + 1)

IrqThread ==
    /\ irq
    /\ BitsOf(regs.stat) \cap BitsOf(regs.int_ctrl) # {}
    /\ LET st == IrqLoop([stat |-> regs.stat, val |-> val, w1c |-> <<>>,
                          stored |-> {}, notified |-> {}], regs.data, 0)
       IN  /\ regs' = [regs EXCEPT !.stat = st.stat]
           /\ val' = st.val
           /\ irqlog' = [pending |-> BitsOf(regs.stat),
                         w1c |-> st.w1c,
                         stored |-> st.stored,
                         notified |-> st.notified,
                         drained |-> irqlog.drained \cup st.stored,
                         nonzero |-> irqlog.nonzero
                                     \cup {s \in st.stored : regs.data[s] # 0},
                         lastzero |-> (irqlog.lastzero \ st.stored)
                                      \cup {s \in st.stored : regs.data[s] = 0}]
           /\ last' = Call("irq_thread", 0, IRQ_HANDLED)
    /\ UNCHANGED <<pc, ret, reg_i, reset, clk, irq, tzd, ops, out, cal, conv, ith>>

(***************************************************************************)
(* Temperature query: sun50i_h6_ths_get_temp (lines 99-109).               *)
(***************************************************************************)
\* a query that converts whatever is stored (mutation of get_temp)
get_temp_nocheck(v) == [ret |-> 0, written |-> TRUE, value |-> calc_temp(v)]

get_temp(v) ==
    IF v = 0 THEN [ret |-> EBUSY_ERR, written |-> FALSE, value |-> 0]
    ELSE [ret |-> 0, written |-> TRUE, value |-> calc_temp(v)]

\* a query that consumes the stored sample (mutation of GetTemp)
GetTempConsume ==
    /\ \E s \in tzd :
          LET r == get_temp(val[s])
          IN  /\ last' = Call("get_temp", s, r.ret)
              /\ out' = [written |-> r.written, value |-> r.value]
              /\ val' = [val EXCEPT ![s] = 0]
    /\ UNCHANGED <<pc, ret, reg_i, reset, clk, irq, tzd, regs, ops, cal,
                   irqlog, conv, ith>>

\* the thermal framework queries a registered zone
GetTemp ==
    /\ \E s \in tzd :
          LET r == get_temp(val[s])
          IN  /\ last' = Call("get_temp", s, r.ret)
              /\ out' = [written |-> r.written, value |-> r.value]
    /\ UNCHANGED <<pc, ret, reg_i, reset, clk, irq, tzd, val, regs, ops, cal,
                   irqlog, conv, ith>>

Next ==
    \/ ProbeMap
    \/ ProbeRequestIrq
    \/ ProbeGetClkReset
    \/ ProbeResetDeassert
    \/ ProbeClkEnable
    \/ ProbeCalibrate
    \/ ProbeRegisterSensor
    \/ ProbeInit
    \/ ErrDisableBus
    \/ ErrAssertReset
    \/ Remove
    \/ DevresRelease
    \/ HwSample
    \/ IrqThread
    \/ GetTemp

Spec == Init /\ [][Next]_vars

(***************************************************************************)
(* The interrupt thread step by step: each register access of              *)
(* sun50i_h6_ths_irq_thread is a step of its own, so that the hardware and *)
(* remove can act between two of them.                                     *)
(***************************************************************************)
\* a handler that reads the data register before it clears the status bit
\* (mutation of IrqOrder)
IrqOrderReadFirst == <<"read", "clear">>

\* what the loop body does for a sensor whose status bit is set: the writel
\* to THS_H6_DATA_INT_STAT (lines 121-122), then the readl of THS_H6_DATA(i)
\* with the store and the notification (lines 124-127)
IrqOrder == <<"clear", "read">>

\* i++ and the loop test; the thread returns after the last sensor
IthAdvance(i) ==
    IF i + 1 >= sensor_num THEN [pos |-> "idle", i |-> 0]
    ELSE [pos |-> "check", i |-> i + 1]

\* the position after the step at pos of iteration i
IthAfter(pos, i) ==
    IF pos = IrqOrder[1] THEN [pos |-> IrqOrder[2], i |-> i]
    ELSE IthAdvance(i)

\* the thread moves to position n after an access to the register block
IthMove(n) ==
    /\ ith' = [pos |-> n.pos, i |-> n.i,
               off |-> ith.off \/ ~clk \/ reset = "asserted"]
    /\ last' = IF n.pos = "idle" THEN Call("irq_thread", 0, IRQ_HANDLED)
               ELSE Call("irq_step", n.i, 0)

\* the interrupt fires and the thread starts with i = 0
IrqWake ==
    /\ irq
    /\ ith.pos = "idle"
    /\ BitsOf(regs.stat) \cap BitsOf(regs.int_ctrl) # {}
    /\ ith' = [ith EXCEPT !.pos = "check", !.i = 0]
    /\ irqlog' = [irqlog EXCEPT !.pending = BitsOf(regs.stat),
                                !.w1c = <<>>,
                                !.stored = {},
                                !.notified = {}]
    /\ last' = Call("irq_step", 0, 0)
    /\ UNCHANGED <<pc, ret, reg_i, reset, clk, irq, tzd, val, regs, ops, out,
                   cal, conv>>

\* lines 117-119: readl(THS_H6_DATA_INT_STAT) & BIT(i), continue if clear
IrqCheck ==
    /\ ith.pos = "check"
    /\ IthMove(IF TestBit(regs.stat, ith.i)
               THEN [pos |-> IrqOrder[1], i |-> ith.i]
               ELSE IthAdvance(ith.i))
    /\ UNCHANGED <<pc, ret, reg_i, reset, clk, irq, tzd, val, regs, ops, out,
                   cal, irqlog, conv>>

\* lines 121-122: writel(BIT(i), THS_H6_DATA_INT_STAT), write 1 to clear
IrqClear ==
    /\ ith.pos = "clear"
    /\ LET w == IrqStatWrite(regs.stat, ith.i)
       IN  /\ regs' = [regs EXCEPT !.stat = AndNot(@, w)]
           /\ irqlog' = [irqlog EXCEPT !.w1c = Append(@, w)]
    /\ IthMove(IthAfter("clear", ith.i))
    /\ UNCHANGED <<pc, ret, reg_i, reset, clk, irq, tzd, val, ops, out, cal,
                   conv>>

\* lines 124-127: val = readl(THS_H6_DATA(i)); notify the zone if non-zero
IrqRead ==
    /\ ith.pos = "read"
    /\ LET i == ith.i
           v == IrqStore(val[i], regs.data[i])
       IN  /\ val' = [val EXCEPT ![i] = v]
           /\ irqlog' = [irqlog EXCEPT
                            !.stored = @ \cup {i},
                            !.notified = IF v # 0 THEN @ \cup {i} ELSE @,
                            !.drained = @ \cup {i},
                            !.nonzero = IF regs.data[i] # 0 THEN @ \cup {i}
                                        ELSE @,
                            !.lastzero = IF regs.data[i] = 0 THEN @ \cup {i}
                                         ELSE @ \ {i}]
    /\ IthMove(IthAfter("read", ith.i))
    /\ UNCHANGED <<pc, ret, reg_i, reset, clk, irq, tzd, regs, ops, out, cal,
                   conv>>

\* the driver with the interrupt thread taken step by step
NextIrq ==
    \/ ProbeMap
    \/ ProbeRequestIrq
    \/ ProbeGetClkReset
    \/ ProbeResetDeassert
    \/ ProbeClkEnable
    \/ ProbeCalibrate
    \/ ProbeRegisterSensor
    \/ ProbeInit
    \/ ErrDisableBus
    \/ ErrAssertReset
    \/ Remove
    \/ DevresRelease
    \/ HwSample
    \/ IrqWake
    \/ IrqCheck
    \/ IrqClear
    \/ IrqRead
    \/ GetTemp

\* the calibration registers hold the hardware default when probe starts
InitIrq ==
    /\ Init
    /\ \A n \in CdataRegs :
          regs.cdata[n] = THS_H6_CAL_DEFAULT * Pow2(16) + THS_H6_CAL_DEFAULT

SpecIrq == InitIrq /\ [][NextIrq]_vars

(***************************************************************************)
(* The conversion functions on their own: every input of the domain is     *)
(* drawn by the initial state and the actions apply the functions.         *)
(***************************************************************************)
\* raw values beyond MaxRaw that the specification names
ExtraRaws == {12634}
ConvInputs == (0 .. MaxRaw) \cup ExtraRaws

InitConv ==
    /\ DrvInit
    /\ regs.cdata[0] = THS_H6_CAL_DEFAULT * Pow2(16) + THS_H6_CAL_DEFAULT
    /\ \E x \in ConvInputs : conv = [op |-> "none", T |-> 0, in |-> x, out |-> 0]

\* calc_temp applied to a raw register value
ConvCalcTemp ==
    /\ conv.op = "none"
    /\ conv' = [op |-> "calc_temp", T |-> 0, in |-> conv.in,
                out |-> calc_temp(conv.in)]
    /\ UNCHANGED drv

\* lines 185-186: recalc_reg applied to a factory temperature T (0.1 C)
ConvRecalcReg ==
    /\ conv.op = "none"
    /\ conv.in <= THS_H6_CAL_FT_TEMP_MASK
    /\ conv' = [op |-> "recalc_reg", T |-> conv.in, in |-> FtTemp(conv.in),
                out |-> recalc_reg(FtTemp(conv.in))]
    /\ UNCHANGED drv

\* the register value so obtained converted to a temperature and back
ConvRoundTrip ==
    /\ conv.op = "recalc_reg"
    /\ conv' = [op |-> "round_trip", T |-> conv.T, in |-> conv.out,
                out |-> recalc_reg(calc_temp(conv.out))]
    /\ UNCHANGED drv

NextConv == ConvCalcTemp \/ ConvRecalcReg \/ ConvRoundTrip

SpecConv == InitConv /\ [][NextConv]_vars

(***************************************************************************)
(* Properties.                                                             *)
(***************************************************************************)
Abs(x) == IF x < 0 THEN -x ELSE x

IsAcquire(o) == o \in {"reset_deassert", "clk_enable"}
IsRelease(o) == o \in {"reset_assert", "clk_disable"}
Undo(o) == IF o = "reset_deassert" THEN "reset_assert" ELSE "clk_disable"
Acquired == SelectSeq(ops, IsAcquire)
Released == SelectSeq(ops, IsRelease)

\* C1: a query on a sensor whose stored raw sample is 0 returns -EBUSY and
\* leaves the output unwritten; a query on a non-zero sample returns 0 and
\* writes calc_temp(val).
C1_BusyOnZeroSample ==
    last.op = "get_temp" =>
        IF val[last.sensor] = 0
        THEN last.ret = EBUSY_ERR /\ ~out.written
        ELSE last.ret = 0 /\ out.written
             /\ out.value = calc_temp(val[last.sensor])

C1_Witness ==
    /\ last.op = "get_temp"
    /\ val[last.sensor] = 0
    /\ last.ret = EBUSY_ERR
    /\ \E s \in Sensors : val[s] # 0

\* C2 as stated: a query is busy exactly when the sensor never latched a
\* (non-zero) sample; once latched, a sensor is never busy again.
C2_Original ==
    last.op = "get_temp" =>
        (last.ret = EBUSY_ERR <=> last.sensor \notin irqlog.nonzero)

\* C2 amended: a query is busy exactly when the handler never drained the
\* sensor or the handler's most recent drain of it read 0 from the data
\* register, also when the sensor latched a non-zero sample before.
C2_BusyIffLastReadZero ==
    last.op = "get_temp" =>
        (last.ret = EBUSY_ERR <=>
            (last.sensor \notin irqlog.drained
             \/ last.sensor \in irqlog.lastzero))

C2_Witness ==
    /\ last.op = "get_temp"
    /\ last.ret = EBUSY_ERR
    /\ last.sensor \in irqlog.nonzero
    /\ last.sensor \in irqlog.lastzero

\* C3: one handler invocation with pending set S writes 1 to the status bit
\* of exactly the sensors of S, one write per sensor, stores a value for
\* exactly the sensors of S, leaves no bit of S pending, and notifies
\* exactly the sensors of S whose data register read non-zero.
C3_IrqDrain ==
    last.op = "irq_thread" =>
        LET S == irqlog.pending
        IN  /\ Len(irqlog.w1c) = Cardinality(S)
            /\ \A k \in 1 .. Len(irqlog.w1c) :
                  \E i \in S : irqlog.w1c[k] = BIT(i)
            /\ \A i \in S : \E k \in 1 .. Len(irqlog.w1c) :
                  irqlog.w1c[k] = BIT(i)
            /\ irqlog.stored = S
            /\ \A i \in S : val[i] = regs.data[i]
            /\ BitsOf(regs.stat) \cap S = {}
            /\ irqlog.notified = {i \in S : regs.data[i] # 0}

C3_Witness ==
    /\ last.op = "irq_thread"
    /\ irqlog.pending = Sensors
    /\ irqlog.notified = {0}
    /\ regs.data[1] = 0

\* C4 as stated: after a successful calibrate, a sensor whose derived value
\* is out of range keeps the field it had, every in-range sensor has its
\* derived value.
C4_Original ==
    (cal.called /\ cal.ret = 0) =>
        \A i \in Sensors :
            IF CalValFaulty(CalVal(cal.blob.w, i))
            THEN CalField(cal.post, i) = CalField(cal.pre, i)
            ELSE CalField(cal.post, i) = CalVal(cal.blob.w, i)

\* C5: a buffer shorter than 2 + 2 * sensor_num bytes, or a first word of
\* 0, makes calibrate return -EINVAL without a write to a calibration
\* register.
C5_InvalidBlob ==
    (cal.called /\ cal.blob.ok
     /\ (cal.blob.len < 2 + 2 * sensor_num \/ cal.blob.w[1] = 0)) =>
        /\ cal.ret = EINVAL_ERR
        /\ cal.writes = <<>>
        /\ cal.post = cal.pre

C5_Witness ==
    /\ cal.called
    /\ cal.blob.ok
    /\ cal.blob.len >= 2 + 2 * sensor_num
    /\ cal.blob.w[1] = 0
    /\ cal.ret = EINVAL_ERR

\* C6 as stated: when calibrate returned an error, after probe's revert
\* every sensor's calibration field is the default 0x800.
C6_Original ==
    (cal.called /\ cal.ret # 0) =>
        \A i \in Sensors : CalField(regs.cdata, i) = THS_H6_CAL_DEFAULT

\* floor(raw * 1000000 / 14882) in unbounded integers
ExactQuot(raw) ==
    raw * (1000000 \div 14882) + (raw * (1000000 % 14882)) \div 14882

\* the largest raw whose product with 1000000 fits 32 bits:
\* floor((2^32 - 1) / 1000000) = floor((2^31 - 1) / 500000)
NoWrapRaw == 2147483647 \div 500000

\* C7 as stated: for every raw value calc_temp is the exact formula and
\* strictly decreasing; raw 12634 gives 0 within rounding, raw 5000 a
\* negative value.
C7_Original ==
    conv.op = "calc_temp" =>
        /\ conv.out = 187744 - ExactQuot(conv.in)
        /\ (conv.in < MaxRaw => calc_temp(conv.in + 1) < conv.out)
        /\ (conv.in = 12634 => Abs(conv.out) <= 1000000 \div 14882 + 1)
        /\ (conv.in = 5000 => conv.out < 0)

\* C7 amended: calc_temp is the exact formula and strictly decreasing for
\* raw in 0 .. 4294, where the 32-bit product does not wrap (this covers the
\* 12-bit data range); raw 0 gives 187744 and the zero crossing is at raw
\* 2794; from raw 4295 on the product wraps: raw 5000 gives 140370 and raw
\* 12634 gives -83998.
C7_ExactBelowWrap ==
    conv.op = "calc_temp" =>
        /\ (conv.in <= NoWrapRaw => conv.out = 187744 - ExactQuot(conv.in))
        /\ (conv.in < NoWrapRaw => calc_temp(conv.in + 1) < conv.out)
        /\ (conv.in = NoWrapRaw => calc_temp(conv.in + 1) > conv.out)
        /\ (conv.in = 0 => conv.out = 187744)
        /\ (conv.in = 2794 => conv.out = 1)
        /\ (conv.in = 2795 => conv.out = -66)
        /\ (conv.in = 5000 => conv.out = 140370)
        /\ (conv.in = 12634 => conv.out = -83998)

C7_Witness ==
    /\ conv.op = "calc_temp"
    /\ conv.in = THS_H6_CAL_VAL_MASK
    /\ conv.out = -87420

\* C8 as stated: for every factory temperature T in 0 .. 4095 the register
\* value r = recalc_reg(T * 100) is reconstructed within 1 by
\* recalc_reg(calc_temp(r)).
C8_Original ==
    conv.op = "round_trip" => Abs(conv.out - conv.in) <= 1

\* C8 amended: the round trip reconstructs r within 1 exactly for the T
\* whose r is at most 2794, that is T in 0 .. 1878 and T in 2887 .. 4095;
\* for T in 1879 .. 2886 recalc_reg wraps below zero and the round trip is
\* off by more than 1.
C8_RoundTripUnlessWrapped ==
    conv.op = "round_trip" =>
        /\ (Abs(conv.out - conv.in) <= 1 <=> conv.in <= 2794)
        /\ (conv.in <= 2794 <=> conv.T \notin 1879 .. 2886)

C8_Witness ==
    /\ conv.op = "round_trip"
    /\ conv.T = 250
    /\ conv.in = 2422
    /\ conv.out = 2422

\* C9: when probe returns an error the clock is disabled and reset is
\* asserted, the releases come after the acquisitions and undo exactly the
\* completed acquisitions in reverse order.
C9_ProbeUnwind ==
    pc = "probe_failed" =>
        /\ ~clk
        /\ reset = "asserted"
        /\ ops = Acquired \o Released
        /\ Len(Released) = Len(Acquired)
        /\ \A k \in 1 .. Len(Acquired) :
              Released[k] = Undo(Acquired[Len(Acquired) + 1 - k])

C9_Witness ==
    /\ pc = "probe_failed"
    /\ ops = <<"reset_deassert", "clk_enable", "clk_disable", "reset_assert">>
    /\ tzd = {0}

\* C10 as stated: remove releases in the order of probe's failure path, the
\* reverse of the acquisition order.
C10_Original ==
    pc = "removed" => Released = <<"clk_disable", "reset_assert">>

\* C10 amended: remove and probe's failure path after clock enable issue
\* the same two releases and leave the clock disabled and reset asserted,
\* but remove asserts reset first and then disables the clock, while the
\* failure path disables the clock first (the reverse of acquisition).
C10_RemoveOrder ==
    /\ pc = "removed" =>
          /\ ops = <<"reset_deassert", "clk_enable", "reset_assert",
                     "clk_disable">>
          /\ ~clk
          /\ reset = "asserted"
    /\ (pc = "probe_failed" /\ Len(Acquired) = 2) =>
          /\ Released = <<"clk_disable", "reset_assert">>
          /\ ~clk
          /\ reset = "asserted"

C10_Witness ==
    /\ pc = "removed"
    /\ Released = <<"reset_assert", "clk_disable">>
    /\ irq

ProbeUnwinding == pc \in {"err_disable_bus", "err_assert_reset", "probe_failed"}

\* C11: calibration problems do not fail probe, except the deferred retry.
\* After a cell lookup error other than -EPROBE_DEFER, or after calibrate
\* returned whatever it returned, probe goes on to register the sensors; if
\* it fails afterwards it is a sensor registration that failed, and it can
\* return success.  After a lookup that gave -EPROBE_DEFER probe unwinds
\* and returns -EPROBE_DEFER with the bus clock disabled and reset
\* asserted, no sensor registered and the configure registers untouched.
C11_CalibrationTolerated ==
    /\ last.op = "calibrate" => pc = "p_register"
    /\ (cal.cell \in {"error", "ok"} /\ ProbeUnwinding) =>
          /\ reg_i < sensor_num
          /\ ret = EINVAL_ERR
          /\ reg_i \notin tzd
    /\ cal.cell = "defer" =>
          /\ ProbeUnwinding
          /\ ret = EPROBE_DEFER_ERR
          /\ tzd = {}
          /\ reg_i = 0
          /\ regs.ctrl0 = 0 /\ regs.ctrl2 = 0 /\ regs.int_ctrl = 0
          /\ regs.per = 0 /\ regs.filter = 0
          /\ pc = "probe_failed" =>
                /\ ~clk
                /\ reset = "asserted"
                /\ last = Call("probe", 0, EPROBE_DEFER_ERR)
                /\ ops = <<"reset_deassert", "clk_enable", "clk_disable",
                           "reset_assert">>

\* probe returned success although calibrate had returned an error
C11_Witness ==
    /\ pc = "bound"
    /\ last = Call("probe", 0, 0)
    /\ cal.called
    /\ cal.ret = EINVAL_ERR
    /\ tzd = Sensors

\* probe returned -EPROBE_DEFER after the cell lookup deferred
C11_DeferReached ==
    /\ pc = "probe_failed"
    /\ cal.cell = "defer"

\* probe returned success although the cell lookup failed
C11_LookupErrorBound ==
    /\ pc = "bound"
    /\ cal.cell = "error"

\* C12 as stated: each update of a calibration register made for one sensor
\* leaves the other 16-bit half of that register as it was: the update for
\* an even-index sensor preserves the upper half, the update for an
\* odd-index sensor preserves the lower half.
C12_Original ==
    cal.called =>
        \A k \in 1 .. Len(cal.steps) :
            LET s == cal.steps[k]
            IN  IF s.i % 2 = 0
                THEN s.after \div Pow2(16) = s.before \div Pow2(16)
                ELSE s.after % Pow2(16) = s.before % Pow2(16)

\* the odd-index half of C12, which the code keeps: an update for an
\* odd-index sensor preserves the lower half
C12_OddPreservesLower ==
    cal.called =>
        \A k \in 1 .. Len(cal.steps) :
            LET s == cal.steps[k]
            IN  s.i % 2 = 1 => s.after % Pow2(16) = s.before % Pow2(16)

\* C13 as stated: every call of calibrate that obtained the buffer from
\* nvmem_cell_read has released it when it returns, on every return path.
C13_Original ==
    (cal.called /\ cal.blob.ok) => cal.freed

\* the buffer is released on the path that reaches the end of calibrate
C13_FreedOnSuccess ==
    (cal.called /\ cal.ret = 0) => cal.freed

\* C14: no sample is lost, whatever way the arrival of hardware samples
\* interleaves with the handler's check, clear and read.  The handler has
\* cleared a sensor's status bit before it reads that sensor's data
\* register, and whenever the handler is not running, each sensor's stored
\* raw value is the newest sample in its data register or its status bit
\* is still set.
C14_NoSampleLost ==
    /\ ith.pos = "read" =>
          /\ ith.i \notin irqlog.stored
          /\ Len(irqlog.w1c) = Cardinality(irqlog.stored) + 1
          /\ irqlog.w1c[Len(irqlog.w1c)] = BIT(ith.i)
    /\ ith.pos = "clear" => Len(irqlog.w1c) = Cardinality(irqlog.stored)
    /\ ith.pos = "idle" =>
          \A s \in Sensors :
              val[s] = regs.data[s] \/ TestBit(regs.stat, s)

\* the handler has returned; it had stored sensor 0's sample, and a newer
\* sample of sensor 0 arrived before it returned: the bit is set again
C14_Witness ==
    /\ ith.pos = "idle"
    /\ last = Call("irq_thread", 0, IRQ_HANDLED)
    /\ 0 \in irqlog.stored
    /\ val[0] # regs.data[0]
    /\ TestBit(regs.stat, 0)

\* a sample arrived between the clear and the read of the same sensor: the
\* handler stored the newest sample and the bit is set as well
C14_ArrivalBeforeRead ==
    /\ ith.pos = "idle"
    /\ last = Call("irq_thread", 0, IRQ_HANDLED)
    /\ irqlog.stored = {1}
    /\ val[1] = regs.data[1]
    /\ val[1] # 0
    /\ TestBit(regs.stat, 1)

\* C15 as stated: the interrupt handler never accesses the register block
\* while the bus clock is disabled or the reset line is asserted, under
\* every interleaving of a running or pending handler with remove or with
\* probe's failure unwind.
C15_Original ==
    ~ith.off

\* the part of C15 about probe: no handler runs before probe has returned
\* success, so none runs during probe's failure unwind
C15_NoHandlerDuringProbe ==
    pc \notin {"bound", "removed"} => (ith = NoIth /\ irqlog = NoIrq)

\* configure has written none of its registers
Unconfigured ==
    /\ regs.ctrl0 = 0
    /\ regs.filter = 0
    /\ regs.ctrl2 = 0
    /\ regs.per = 0
    /\ regs.int_ctrl = 0

\* C16: in every execution of probe, configure runs only after reset
\* deassert, clock enable, the calibration attempt and the registration of
\* all sensor_num thermal zones, in that order; on every failing probe no
\* sensor-enable or interrupt-enable bit is written, so the handler never
\* runs and never notifies a sensor whose zone is not registered.
C16_ConfigureLast ==
    /\ ~Unconfigured => pc \in {"bound", "removed"}
    /\ pc = "bound" =>
          /\ regs.ctrl2 = SensorMask(0, 0, sensor_num)
          /\ regs.int_ctrl = SensorMask(0, 0, sensor_num)
          /\ tzd = Sensors
          /\ reg_i = sensor_num
          /\ cal.cell \in {"error", "ok"}
          /\ ops = <<"reset_deassert", "clk_enable">>
          /\ reset = "deasserted"
          /\ clk
    /\ tzd # {} => cal.cell \in {"error", "ok"}
    /\ pc = "p_register" => tzd = 0 .. (reg_i - 1)
    /\ cal.cell # "none" =>
          /\ Len(ops) >= 2
          /\ ops[1] = "reset_deassert"
          /\ ops[2] = "clk_enable"
    /\ pc = "p_calibrate" => (cal.cell = "none" /\ tzd = {})
    /\ pc = "p_clk_enable" => (ops = <<"reset_deassert">> /\ tzd = {})
    /\ pc \notin {"bound", "removed"} => irqlog = NoIrq
    /\ (irq /\ last.op = "irq_thread") => irqlog.notified \subseteq tzd

\* probe has just returned success after a successful calibration
C16_Witness ==
    /\ pc = "bound"
    /\ last = Call("probe", 0, 0)
    /\ cal.cell = "ok"
    /\ cal.ret = 0
    /\ ~Unconfigured

\* probe failed in the registration loop with a zone already registered
C16_FailedAfterRegistering ==
    /\ pc = "probe_failed"
    /\ cal.cell = "ok"
    /\ tzd = {0}
    /\ Unconfigured

\* 0x800 - (expected_raw - stored_raw[i]) in unbounded integers, with
\* expected_raw = recalc_reg((word 0 & 0xfff) * 100) and stored_raw[i] the
\* word 1 + i of the blob w
DerivedCal(w, i) ==
    2048 - (recalc_reg((w[1] % 4096) * 100) - w[2 + i])

\* C17: when calibrate has returned 0, for every sensor i whose derived
\* value 0x800 - (expected_raw - stored_raw[i]) is within 0 .. 0xfff, that
\* value is what calibrate wrote into sensor i's field: bits [15:0] of
\* CDATA(i / 2) for an even i, bits [31:16] for an odd i.  Every value
\* calibrate wrote is the derived value modulo 2^16.
C17_DerivedValueWritten ==
    (last.op = "calibrate" /\ cal.called /\ cal.ret = 0) =>
        /\ \A i \in Sensors :
              DerivedCal(cal.blob.w, i) \in 0 .. 4095 =>
                  /\ \E k \in 1 .. Len(cal.writes) : cal.writes[k] = i
                  /\ i % 2 = 0 =>
                        cal.post[i \div 2] % 65536 = DerivedCal(cal.blob.w, i)
                  /\ i % 2 = 1 =>
                        cal.post[i \div 2] \div 65536
                            = DerivedCal(cal.blob.w, i)
        /\ \A k \in 1 .. Len(cal.writes) :
              LET i == cal.writes[k]
              IN  (CalField(cal.post, i) - DerivedCal(cal.blob.w, i)) % 65536
                      = 0
        /\ regs.cdata = cal.post

\* calibrate wrote 0x7ea for both sensors: T = 25.0 C, expected raw 2422,
\* stored raw 2400
C17_Witness ==
    /\ cal.called
    /\ cal.ret = 0
    /\ cal.blob.w = <<250, 2400, 2400>>
    /\ cal.writes = <<0, 1>>
    /\ cal.post[0] = 2026 * 65536 + 2026
    /\ last.op = "calibrate"

\* C18: configure is idempotent: on the registers one run has left, a
\* second run changes nothing.  After configure the sensor-enable and the
\* data-interrupt-enable bits are set for exactly the sensors
\* 0 .. sensor_num - 1, and the period register holds
\* (10 ms * 240 MHz / 8 / 4096 - 1) << 12 = 72 << 12.
C18_InitIdempotent ==
    pc \in {"bound", "removed"} =>
        /\ ths_init(regs) = regs
        /\ BitsOf(regs.ctrl2) = 0 .. (sensor_num - 1)
        /\ BitsOf(regs.int_ctrl) = 0 .. (sensor_num - 1)
        /\ regs.per = 72 * 4096
        /\ regs.per = ((((10 * 240000) \div 8) \div 4096) - 1) * 4096
        /\ regs.ctrl0 = 479 * 65536 + 47
        /\ regs.filter = 6

\* configure has just run, on registers that calibrate had written
C18_Witness ==
    /\ pc = "bound"
    /\ last = Call("probe", 0, 0)
    /\ regs.per = 294912
    /\ regs.ctrl2 = 3
    /\ regs.int_ctrl = 3
    /\ cal.writes = <<0, 1>>

\* C19: the stored raw samples have a single writer.  Only a step of the
\* interrupt handler changes any sensor's val; the steps of probe (with
\* calibrate and configure), get_temp and remove leave every val as it
\* was, and a get_temp step leaves every hardware register as it was too.
C19_SingleWriter ==
    [][/\ val' # val => last'.op = "irq_thread"
       /\ last'.op \in {"probe", "probe_step", "calibrate", "get_temp",
                        "remove", "hw_sample"} => val' = val
       /\ last'.op = "get_temp" => regs' = regs]_vars

\* a query has returned a converted temperature of a sample the handler
\* stored, and the sample is still there
C19_Witness ==
    /\ last = Call("get_temp", 1, 0)
    /\ out.written
    /\ val[1] # 0
    /\ 1 \in irqlog.nonzero
    /\ regs.data[1] = val[1]
=============================================================================
